---- MODULE Spec2Model ----
(***************************************************************************)
(* Gas station simulation (src/Project.py) driven by the run entry of      *)
(* src/gui.py: a semaphore of NUM_PUMPS permits, the pump_status registry, *)
(* the cashier lock, one thread per vehicle and the StationManager thread. *)
(*                                                                         *)
(* PRINT_LOCK guards the log and the registry. A safe_print call (acquire,  *)
(* print, release) never blocks inside, so it is one step that needs the   *)
(* lock free; a `with PRINT_LOCK:` block around the registry is entered in *)
(* one step and run and left in the next.                                  *)
(* safe_print ends in print(), which can raise (closed or broken stdout):  *)
(* every step that logs has a second outcome in which the exception ends   *)
(* the thread at that line.                                                *)
(***************************************************************************)
EXTENDS Integers, Sequences, FiniteSets, TLC

\* ---- bounds of the model ------------------------------------------------
MaxPumps == 2
MaxVehicles == 2

\* ---- program constants --------------------------------------------------
DEFAULT_NUM_PUMPS == 3
DEFAULT_MAX_VEHICLES == 10
NO_PUMP == -1

VehicleIds == 1..MaxVehicles
PumpInputs == (0 - 1)..MaxPumps
VehicleInputs == (0 - 1)..MaxVehicles

VARIABLES
    NUM_PUMPS,        \* Project.NUM_PUMPS
    PUMPS_SEMAPHORE,  \* permits left in Project.PUMPS_SEMAPHORE
    pump_status,      \* Project.pump_status: one text per pump
    CASHIER_LOCK,     \* 0 when unlocked, else the vehicle inside `with CASHIER_LOCK`
    CASHIER_BUSY,     \* Project.CASHIER_BUSY
    PRINT_LOCK,       \* 0 when unlocked, else the vehicle inside a registry `with PRINT_LOCK`
    VEHICLE_COUNT,    \* Project.VEHICLE_COUNT
    max_vehicles,     \* StationManager.max_vehicles
    running,          \* StationManager.running
    mgr_pc,           \* position of the StationManager thread
    vehicle_threads,  \* StationManager.run local: ids of the started vehicles
    join_i,           \* StationManager.run: index of the thread being joined
    status_line,      \* display_status local: <<>>, or <<cashier text, pump texts>>
    pumps_var,        \* StationGUI.pumps_var, the entry "Number of pumps"
    max_var,          \* StationGUI.max_var, the entry "Max vehicles"
    pc,               \* position of each Vehicle thread
    scan_i,           \* Vehicle.run local i of the free-pump scan
    pump_id,          \* Vehicle.run local pump_id
    acquires,         \* per vehicle: completed PUMPS_SEMAPHORE.acquire() calls
    releases          \* per vehicle: completed PUMPS_SEMAPHORE.release() calls

vars == <<NUM_PUMPS, PUMPS_SEMAPHORE, pump_status, CASHIER_LOCK, CASHIER_BUSY, PRINT_LOCK,
          VEHICLE_COUNT, max_vehicles, running, mgr_pc, vehicle_threads, join_i,
          status_line, pumps_var, max_var,
          pc, scan_i, pump_id, acquires, releases>>

station_vars == <<NUM_PUMPS, PUMPS_SEMAPHORE, pump_status, CASHIER_LOCK, CASHIER_BUSY,
                  PRINT_LOCK>>
gui_vars == <<status_line, pumps_var, max_var>>
manager_vars == <<VEHICLE_COUNT, max_vehicles, running, mgr_pc, vehicle_threads, join_i,
                  status_line, pumps_var, max_var>>
vehicle_vars == <<pc, scan_i, pump_id, acquires, releases>>

\* ---- texts of the registry ----------------------------------------------
\* A text is the sequence of its space-separated words.
FreeText(i) ==
    <<"D" \o ToString(i) \o ":", "Wolny">>

OccupiedText(i, v) ==
    <<"D" \o ToString(i) \o ":", "Zajety", "przez", "V" \o ToString(v)>>

ReleasedText(i, v) ==
    <<"D" \o ToString(i) \o ":", "Wolny", "(zwolniony", "przez", "V" \o ToString(v) \o ")">>

\* str.endswith for a suffix that is one whole word
endswith(text, word) ==
    Len(text) > 0 /\ text[Len(text)] = word

\* a max that keeps the entry value as it is
Max_unclamped(a, b) ==
    b

Max(a, b) ==
    IF a >= b THEN a ELSE b

\* a test that takes every entry for a free pump
is_free_always(text) ==
    Len(text) > 0

\* line 73: the test by which the scan takes an entry for a free pump
is_free(text) ==
    endswith(text, "Wolny")

\* an acquire that does not wait for the holder
lock_can_acquire_unguarded(holder) ==
    holder >= 0

\* threading.Lock.acquire: may return only while the lock is not held
lock_can_acquire(holder) ==
    holder = 0

\* ---- thread positions ---------------------------------------------------
Terminal(p) ==
    p \in {"departed", "aborted", "crashed"}

\* a started thread that has not left run() yet
Alive(v) ==
    pc[v] # "unborn" /\ ~Terminal(pc[v])

\* between a PUMPS_SEMAPHORE.acquire() and the release() that follows it
HoldsSlot(v) ==
    acquires[v] > releases[v]

\* inside Pump.tank
Fueling(v) ==
    pc[v] = "tank"

\* blocked in, or about to call, `with CASHIER_LOCK`
AwaitingCashier(v) ==
    pc[v] = "pay_lock"

\* inside the `with CASHIER_LOCK` block of process_payment
Paying(v) ==
    pc[v] = "paying"

Init ==
    /\ NUM_PUMPS = DEFAULT_NUM_PUMPS
    /\ PUMPS_SEMAPHORE = DEFAULT_NUM_PUMPS
    /\ pump_status = [i \in 1..DEFAULT_NUM_PUMPS |-> FreeText(i)]
    /\ CASHIER_LOCK = 0
    /\ CASHIER_BUSY = FALSE
    /\ PRINT_LOCK = 0
    /\ VEHICLE_COUNT = 0
    /\ max_vehicles = 0
    /\ running = FALSE
    /\ mgr_pc = "none"
    /\ vehicle_threads = <<>>
    /\ join_i = 1
    /\ status_line = <<>>
    /\ pumps_var = DEFAULT_NUM_PUMPS
    /\ max_var = DEFAULT_MAX_VEHICLES
    /\ pc = [v \in VehicleIds |-> "unborn"]
    /\ scan_i = [v \in VehicleIds |-> 0]
    /\ pump_id = [v \in VehicleIds |-> NO_PUMP]
    /\ acquires = [v \in VehicleIds |-> 0]
    /\ releases = [v \in VehicleIds |-> 0]

\* ---- gui.py -------------------------------------------------------------
\* the user fills the two entries and presses Start: StationGUI.start_simulation
start_simulation(pumps_entry, max_entry) ==
    /\ mgr_pc = "none"
    /\ pumps_var' = pumps_entry
    /\ max_var' = max_entry
    /\ NUM_PUMPS' = Max(1, pumps_entry)
    /\ PUMPS_SEMAPHORE' = Max(1, pumps_entry)
    /\ pump_status' = [i \in 1..Max(1, pumps_entry) |-> FreeText(i)]
    /\ VEHICLE_COUNT' = 0
    /\ max_vehicles' = Max(1, max_entry)
    /\ running' = TRUE
    /\ mgr_pc' = "start_print"
    /\ UNCHANGED <<CASHIER_LOCK, CASHIER_BUSY, PRINT_LOCK, vehicle_threads, join_i, status_line>>
    /\ UNCHANGED vehicle_vars

\* StationManager.stop, called by the waiter thread of stop_simulation
stop ==
    /\ mgr_pc # "none"
    /\ running' = FALSE
    /\ UNCHANGED <<VEHICLE_COUNT, max_vehicles, mgr_pc, vehicle_threads, join_i>>
    /\ UNCHANGED station_vars
    /\ UNCHANGED gui_vars
    /\ UNCHANGED vehicle_vars

\* ---- Project.py: StationManager ------------------------------------------
\* run(), lines 113-115: the local list and the start banner
manager_start(raised) ==
    /\ mgr_pc = "start_print"
    /\ lock_can_acquire(PRINT_LOCK)
    /\ vehicle_threads' = <<>>
    /\ mgr_pc' = IF raised THEN "crashed" ELSE "loop"
    /\ UNCHANGED <<VEHICLE_COUNT, max_vehicles, running, join_i>>
    /\ UNCHANGED station_vars
    /\ UNCHANGED gui_vars
    /\ UNCHANGED vehicle_vars

\* a loop condition that lets the counter pass the maximum
loop_condition_off_by_one(count, maximum, run) ==
    count <= maximum /\ run

\* line 117: VEHICLE_COUNT < self.max_vehicles and self.running
loop_condition(count, maximum, run) ==
    count < maximum /\ run

\* run(), line 117: the loop condition
manager_loop ==
    /\ mgr_pc = "loop"
    /\ mgr_pc' = IF loop_condition(VEHICLE_COUNT, max_vehicles, running)
                    THEN "sleep" ELSE "stop_print"
    /\ UNCHANGED <<VEHICLE_COUNT, max_vehicles, running, vehicle_threads, join_i>>
    /\ UNCHANGED station_vars
    /\ UNCHANGED gui_vars
    /\ UNCHANGED vehicle_vars

\* run(), lines 119-123: the sleep is over, count, create and start the vehicle
manager_spawn ==
    /\ mgr_pc = "sleep"
    /\ VEHICLE_COUNT' = VEHICLE_COUNT + 1
    /\ vehicle_threads' = Append(vehicle_threads, VEHICLE_COUNT + 1)
    /\ pc' = [pc EXCEPT ![VEHICLE_COUNT + 1] = "arrive"]
    /\ mgr_pc' = "display"
    /\ UNCHANGED <<max_vehicles, running, join_i>>
    /\ UNCHANGED station_vars
    /\ UNCHANGED gui_vars
    /\ UNCHANGED <<scan_i, pump_id, acquires, releases>>

\* the text display_status shows for the cashier, line 139
cashier_text(locked) ==
    IF locked THEN "Zajeta" ELSE "Wolna"

\* run(), line 126, and display_status, lines 139-140: the cashier state and
\* the pump texts are read, no lock is taken; " | ".join(pump_status) is one
\* call of the interpreter and reads the list in one step
display_status_read ==
    /\ mgr_pc = "display"
    /\ status_line' = <<cashier_text(CASHIER_LOCK # 0), pump_status>>
    /\ mgr_pc' = "display_print"
    /\ UNCHANGED <<VEHICLE_COUNT, max_vehicles, running, vehicle_threads, join_i>>
    /\ UNCHANGED <<pumps_var, max_var>>
    /\ UNCHANGED station_vars
    /\ UNCHANGED vehicle_vars

\* display_status, line 141: the line is printed and the local is gone
display_status(raised) ==
    /\ mgr_pc = "display_print"
    /\ lock_can_acquire(PRINT_LOCK)
    /\ status_line' = <<>>
    /\ mgr_pc' = IF raised THEN "crashed" ELSE "loop"
    /\ UNCHANGED <<VEHICLE_COUNT, max_vehicles, running, vehicle_threads, join_i>>
    /\ UNCHANGED <<pumps_var, max_var>>
    /\ UNCHANGED station_vars
    /\ UNCHANGED vehicle_vars

\* run(), line 128: the generator has stopped
manager_stop_print(raised) ==
    /\ mgr_pc = "stop_print"
    /\ lock_can_acquire(PRINT_LOCK)
    /\ mgr_pc' = IF raised THEN "crashed" ELSE "join"
    /\ join_i' = 1
    /\ UNCHANGED <<VEHICLE_COUNT, max_vehicles, running, vehicle_threads>>
    /\ UNCHANGED station_vars
    /\ UNCHANGED gui_vars
    /\ UNCHANGED vehicle_vars

\* a join that does not wait for the thread
join_returns_at_once(v) ==
    pc[v] # "unborn"

\* t.join() returns once the thread t has ended
join_returns(v) ==
    Terminal(pc[v])

\* run(), lines 131-132: one t.join() of the loop, or the end of the loop
manager_join ==
    /\ mgr_pc = "join"
    /\ IF join_i > Len(vehicle_threads)
         THEN /\ mgr_pc' = "final_print"
              /\ join_i' = join_i
         ELSE /\ join_returns(vehicle_threads[join_i])
              /\ join_i' = join_i + 1
              /\ mgr_pc' = mgr_pc
    /\ UNCHANGED <<VEHICLE_COUNT, max_vehicles, running, vehicle_threads>>
    /\ UNCHANGED station_vars
    /\ UNCHANGED gui_vars
    /\ UNCHANGED vehicle_vars

\* run(), line 134: the run is declared complete
manager_final(raised) ==
    /\ mgr_pc = "final_print"
    /\ lock_can_acquire(PRINT_LOCK)
    /\ mgr_pc' = IF raised THEN "crashed" ELSE "done"
    /\ UNCHANGED <<VEHICLE_COUNT, max_vehicles, running, vehicle_threads, join_i>>
    /\ UNCHANGED station_vars
    /\ UNCHANGED gui_vars
    /\ UNCHANGED vehicle_vars

\* ---- Project.py: Vehicle.run --------------------------------------------
\* line 64: the arrival line
vehicle_arrive(v, raised) ==
    /\ pc[v] = "arrive"
    /\ lock_can_acquire(PRINT_LOCK)
    /\ pc' = [pc EXCEPT ![v] = IF raised THEN "crashed" ELSE "acquire"]
    /\ UNCHANGED <<scan_i, pump_id, acquires, releases>>
    /\ UNCHANGED station_vars
    /\ UNCHANGED manager_vars

\* an acquire that lets one thread too many through
semaphore_can_acquire_off_by_one(permits) ==
    permits >= 0

\* threading.Semaphore.acquire: may return only while a permit is left
semaphore_can_acquire(permits) ==
    permits > 0

\* lines 67-70: PUMPS_SEMAPHORE.acquire(), then pump_id = -1
vehicle_acquire(v) ==
    /\ pc[v] = "acquire"
    /\ semaphore_can_acquire(PUMPS_SEMAPHORE)
    /\ PUMPS_SEMAPHORE' = PUMPS_SEMAPHORE - 1
    /\ acquires' = [acquires EXCEPT ![v] = @ + 1]
    /\ pump_id' = [pump_id EXCEPT ![v] = NO_PUMP]
    /\ scan_i' = [scan_i EXCEPT ![v] = 0]
    /\ pc' = [pc EXCEPT ![v] = "scan"]
    /\ UNCHANGED releases
    /\ UNCHANGED <<NUM_PUMPS, pump_status, CASHIER_LOCK, CASHIER_BUSY, PRINT_LOCK>>
    /\ UNCHANGED manager_vars

\* lines 71-72: the next iteration of the scan enters `with PRINT_LOCK`
\* (i = scan_i[v], 0-based); after the last one lines 83-84 and 96 find no
\* pump selected and take the error branch
vehicle_scan_enter(v) ==
    /\ pc[v] = "scan"
    /\ IF scan_i[v] >= NUM_PUMPS
         THEN /\ pc' = [pc EXCEPT ![v] = "error"]
              /\ UNCHANGED PRINT_LOCK
         ELSE /\ lock_can_acquire(PRINT_LOCK)
              /\ PRINT_LOCK' = v
              /\ pc' = [pc EXCEPT ![v] = "scan_locked"]
    /\ UNCHANGED <<scan_i, pump_id, acquires, releases>>
    /\ UNCHANGED <<NUM_PUMPS, PUMPS_SEMAPHORE, pump_status, CASHIER_LOCK, CASHIER_BUSY>>
    /\ UNCHANGED manager_vars

\* lines 73-76 and the end of the `with` block: the entry is tested and, if
\* free, claimed (break, then lines 83-85 select the pump); else the loop goes on
vehicle_scan(v) ==
    /\ pc[v] = "scan_locked"
    /\ PRINT_LOCK' = 0
    /\ IF is_free(pump_status[scan_i[v] + 1])
         THEN /\ pump_status' = [pump_status EXCEPT
                                   ![scan_i[v] + 1] = OccupiedText(scan_i[v] + 1, v)]
              /\ pump_id' = [pump_id EXCEPT ![v] = scan_i[v] + 1]
              /\ pc' = [pc EXCEPT ![v] = "tank"]
              /\ UNCHANGED scan_i
         ELSE /\ scan_i' = [scan_i EXCEPT ![v] = @ + 1]
              /\ pc' = [pc EXCEPT ![v] = "scan"]
              /\ UNCHANGED <<pump_status, pump_id>>
    /\ UNCHANGED <<acquires, releases>>
    /\ UNCHANGED <<NUM_PUMPS, PUMPS_SEMAPHORE, CASHIER_LOCK, CASHIER_BUSY>>
    /\ UNCHANGED manager_vars

\* lines 83-85 and Pump.tank, lines 32-35: two log lines around the sleep; an
\* exception of either ends the thread inside tank()
tank(v, raised) ==
    /\ pc[v] = "tank"
    /\ lock_can_acquire(PRINT_LOCK)
    /\ pc' = [pc EXCEPT ![v] = IF raised THEN "crashed" ELSE "free_status"]
    /\ UNCHANGED <<scan_i, pump_id, acquires, releases>>
    /\ UNCHANGED station_vars
    /\ UNCHANGED manager_vars

\* line 88: `with PRINT_LOCK` around the release of the entry is entered
vehicle_free_status_enter(v) ==
    /\ pc[v] = "free_status"
    /\ lock_can_acquire(PRINT_LOCK)
    /\ PRINT_LOCK' = v
    /\ pc' = [pc EXCEPT ![v] = "free_locked"]
    /\ UNCHANGED <<scan_i, pump_id, acquires, releases>>
    /\ UNCHANGED <<NUM_PUMPS, PUMPS_SEMAPHORE, pump_status, CASHIER_LOCK, CASHIER_BUSY>>
    /\ UNCHANGED manager_vars

\* a release that leaves the entry as it is
vehicle_free_status_skipped(v) ==
    /\ pc[v] = "free_locked"
    /\ PRINT_LOCK' = 0
    /\ pc' = [pc EXCEPT ![v] = "release"]
    /\ UNCHANGED <<scan_i, pump_id, acquires, releases>>
    /\ UNCHANGED <<NUM_PUMPS, PUMPS_SEMAPHORE, pump_status, CASHIER_LOCK, CASHIER_BUSY>>
    /\ UNCHANGED manager_vars

\* line 89 and the end of the `with` block: the registry entry is rewritten
vehicle_free_status(v) ==
    /\ pc[v] = "free_locked"
    /\ PRINT_LOCK' = 0
    /\ pump_status' = [pump_status EXCEPT ![pump_id[v]] = ReleasedText(pump_id[v], v)]
    /\ pc' = [pc EXCEPT ![v] = "release"]
    /\ UNCHANGED <<scan_i, pump_id, acquires, releases>>
    /\ UNCHANGED <<NUM_PUMPS, PUMPS_SEMAPHORE, CASHIER_LOCK, CASHIER_BUSY>>
    /\ UNCHANGED manager_vars

\* a vehicle that goes to the cashier with its permit
vehicle_release_skipped(v) ==
    /\ pc[v] = "release"
    /\ pc' = [pc EXCEPT ![v] = "pay_wait"]
    /\ UNCHANGED <<scan_i, pump_id, acquires, releases>>
    /\ UNCHANGED station_vars
    /\ UNCHANGED manager_vars

\* line 91: PUMPS_SEMAPHORE.release()
vehicle_release(v) ==
    /\ pc[v] = "release"
    /\ PUMPS_SEMAPHORE' = PUMPS_SEMAPHORE + 1
    /\ releases' = [releases EXCEPT ![v] = @ + 1]
    /\ pc' = [pc EXCEPT ![v] = "pay_wait"]
    /\ UNCHANGED <<scan_i, pump_id, acquires>>
    /\ UNCHANGED <<NUM_PUMPS, pump_status, CASHIER_LOCK, CASHIER_BUSY, PRINT_LOCK>>
    /\ UNCHANGED manager_vars

\* lines 96-99: the error branch: its log line, then PUMPS_SEMAPHORE.release()
\* and the end of run(); an exception of the log line ends the thread before
\* the release
vehicle_error(v, raised) ==
    /\ pc[v] = "error"
    /\ lock_can_acquire(PRINT_LOCK)
    /\ IF raised
         THEN /\ pc' = [pc EXCEPT ![v] = "crashed"]
              /\ UNCHANGED <<PUMPS_SEMAPHORE, releases>>
         ELSE /\ PUMPS_SEMAPHORE' = PUMPS_SEMAPHORE + 1
              /\ releases' = [releases EXCEPT ![v] = @ + 1]
              /\ pc' = [pc EXCEPT ![v] = "aborted"]
    /\ UNCHANGED <<scan_i, pump_id, acquires>>
    /\ UNCHANGED <<NUM_PUMPS, pump_status, CASHIER_LOCK, CASHIER_BUSY, PRINT_LOCK>>
    /\ UNCHANGED manager_vars

\* ---- Project.py: Cashier.process_payment ---------------------------------
\* line 94 and line 43: the vehicle announces that it waits for the cashier
payment_wait(v, raised) ==
    /\ pc[v] = "pay_wait"
    /\ lock_can_acquire(PRINT_LOCK)
    /\ pc' = [pc EXCEPT ![v] = IF raised THEN "crashed" ELSE "pay_lock"]
    /\ UNCHANGED <<scan_i, pump_id, acquires, releases>>
    /\ UNCHANGED station_vars
    /\ UNCHANGED manager_vars

\* lines 45-46: `with CASHIER_LOCK` is entered, CASHIER_BUSY = True
payment_enter(v) ==
    /\ pc[v] = "pay_lock"
    /\ lock_can_acquire(CASHIER_LOCK)
    /\ CASHIER_LOCK' = v
    /\ CASHIER_BUSY' = TRUE
    /\ pc' = [pc EXCEPT ![v] = "paying"]
    /\ UNCHANGED <<scan_i, pump_id, acquires, releases>>
    /\ UNCHANGED <<NUM_PUMPS, PUMPS_SEMAPHORE, pump_status, PRINT_LOCK>>
    /\ UNCHANGED manager_vars

\* lines 47-53 and the end of the `with` block: two log lines around the sleep,
\* then CASHIER_BUSY = False; an exception of either log line leaves the `with`
\* block, which unlocks, and ends the thread before line 53
payment(v, raised) ==
    /\ pc[v] = "paying"
    /\ lock_can_acquire(PRINT_LOCK)
    /\ CASHIER_LOCK' = 0
    /\ IF raised
         THEN /\ CASHIER_BUSY' = CASHIER_BUSY
              /\ pc' = [pc EXCEPT ![v] = "crashed"]
         ELSE /\ CASHIER_BUSY' = FALSE
              /\ pc' = [pc EXCEPT ![v] = "bye"]
    /\ UNCHANGED <<scan_i, pump_id, acquires, releases>>
    /\ UNCHANGED <<NUM_PUMPS, PUMPS_SEMAPHORE, pump_status, PRINT_LOCK>>
    /\ UNCHANGED manager_vars

\* line 95: the farewell line, then run() returns
vehicle_leave(v, raised) ==
    /\ pc[v] = "bye"
    /\ lock_can_acquire(PRINT_LOCK)
    /\ pc' = [pc EXCEPT ![v] = IF raised THEN "crashed" ELSE "departed"]
    /\ UNCHANGED <<scan_i, pump_id, acquires, releases>>
    /\ UNCHANGED station_vars
    /\ UNCHANGED manager_vars

\* ---- the system ---------------------------------------------------------
Next ==
    \/ \E pumps_entry \in PumpInputs, max_entry \in VehicleInputs :
          start_simulation(pumps_entry, max_entry)
    \/ stop
    \/ \E raised \in BOOLEAN : manager_start(raised)
    \/ manager_loop
    \/ manager_spawn
    \/ display_status_read
    \/ \E raised \in BOOLEAN : display_status(raised)
    \/ \E raised \in BOOLEAN : manager_stop_print(raised)
    \/ manager_join
    \/ \E raised \in BOOLEAN : manager_final(raised)
    \/ \E v \in VehicleIds, raised \in BOOLEAN : vehicle_arrive(v, raised)
    \/ \E v \in VehicleIds : vehicle_acquire(v)
    \/ \E v \in VehicleIds : vehicle_scan_enter(v)
    \/ \E v \in VehicleIds : vehicle_scan(v)
    \/ \E v \in VehicleIds, raised \in BOOLEAN : tank(v, raised)
    \/ \E v \in VehicleIds : vehicle_free_status_enter(v)
    \/ \E v \in VehicleIds : vehicle_free_status(v)
    \/ \E v \in VehicleIds : vehicle_release(v)
    \/ \E v \in VehicleIds, raised \in BOOLEAN : vehicle_error(v, raised)
    \/ \E v \in VehicleIds, raised \in BOOLEAN : payment_wait(v, raised)
    \/ \E v \in VehicleIds : payment_enter(v)
    \/ \E v \in VehicleIds, raised \in BOOLEAN : payment(v, raised)
    \/ \E v \in VehicleIds, raised \in BOOLEAN : vehicle_leave(v, raised)

Spec == Init /\ [][Next]_vars

\* ---- properties ----------------------------------------------------------
SlotHolders == {v \in VehicleIds : HoldsSlot(v)}
Departed == {v \in VehicleIds : pc[v] = "departed"}
NoLogCallRaised == mgr_pc # "crashed" /\ \A v \in VehicleIds : pc[v] # "crashed"

\* C1: in every reachable state at most NUM_PUMPS vehicles hold a pool slot
\* (between acquire and release), hence at most NUM_PUMPS vehicles are fueling;
\* with one pump no two vehicles fuel at once.
C1_AtMostNSlotHolders ==
    /\ Cardinality(SlotHolders) <= NUM_PUMPS
    /\ Cardinality({v \in VehicleIds : Fueling(v)}) <= NUM_PUMPS
    /\ \A v \in VehicleIds : Fueling(v) => HoldsSlot(v)

\* one pump, one vehicle fueling, the other kept waiting by the semaphore
C1_Witness ==
    /\ NUM_PUMPS = 1
    /\ PUMPS_SEMAPHORE = 0
    /\ \E v, w \in VehicleIds : Fueling(v) /\ pc[w] = "acquire"

\* C2: in every reachable state at most one vehicle is inside the cashier
\* critical section, and it is the one that holds CASHIER_LOCK.
C2_AtMostOnePaying ==
    /\ Cardinality({v \in VehicleIds : Paying(v)}) <= 1
    /\ \A v \in VehicleIds : Paying(v) => CASHIER_LOCK = v

\* no pump contention (a pump per vehicle): one vehicle pays, another waits
C2_Witness ==
    /\ NUM_PUMPS >= max_vehicles
    /\ \E v, w \in VehicleIds : Paying(v) /\ AwaitingCashier(w)

\* C3: an entry that holds the text a release wrote is taken for a free pump
\* by the scan, so the pump can be claimed again.
C3_ReleasedEntryIsFree ==
    \A i \in 1..NUM_PUMPS : \A v \in VehicleIds :
        pump_status[i] = ReleasedText(i, v) => is_free(pump_status[i])

\* C4: no vehicle that has returned from acquire ends its scan without a pump:
\* the error branch of Vehicle.run is never reached.
C4_ErrorBranchUnreachable ==
    \A v \in VehicleIds : pc[v] \notin {"error", "aborted"}

\* C5: when the supervisor declares complete a run that was not stopped and in
\* which no log call raised, all max_vehicles vehicles have departed.
C5_AllDepartedAtCompletion ==
    (mgr_pc = "done" /\ running /\ NoLogCallRaised)
        => Cardinality(Departed) = max_vehicles

\* C6: no vehicle blocks forever: a vehicle that waits for a permit, or for the
\* cashier, waits for a thread that is still running and will give it back.
C6_NoVehicleBlockedForever ==
    \A v \in VehicleIds :
        /\ (pc[v] = "acquire" /\ PUMPS_SEMAPHORE = 0)
              => \E w \in VehicleIds : HoldsSlot(w) /\ Alive(w)
        /\ (pc[v] = "pay_lock" /\ CASHIER_LOCK # 0)
              => Alive(CASHIER_LOCK)

\* C7: once stop() has set running to false there is no new arrival:
\* VEHICLE_COUNT does not change in any later step.
C7_NoArrivalAfterStop ==
    [][(mgr_pc # "none" /\ ~running) => VEHICLE_COUNT' = VEHICLE_COUNT]_vars

C9_SlotReleasedExactlyOnce ==
    \A v \in VehicleIds :
        /\ releases[v] <= acquires[v]
        /\ Terminal(pc[v]) => releases[v] = acquires[v]

\* C10: the cashier is Busy only while a vehicle is paying: CASHIER_LOCK is
\* held and CASHIER_BUSY is true only with a vehicle inside the section.
C10_CashierFreedOnEveryExit ==
    /\ CASHIER_BUSY => \E v \in VehicleIds : Paying(v)
    /\ CASHIER_LOCK # 0 => Paying(CASHIER_LOCK)

\* the registry entry i is Occupied by vehicle v
OccupiedBy(i, v) ==
    pump_status[i] = OccupiedText(i, v)

\* C11: in every reachable state the started vehicles have the ids 1, 2, ...,
\* VEHICLE_COUNT in spawn order (1-based, unique, increasing, one per
\* increment of the counter), exactly these threads exist, and the counter
\* does not exceed max_vehicles; each step raises the counter by at most one.
C11_ArrivalIds ==
    [][/\ vehicle_threads' = [k \in 1..VEHICLE_COUNT' |-> k]
       /\ \A v \in VehicleIds : (pc'[v] # "unborn") <=> (v <= VEHICLE_COUNT')
       /\ VEHICLE_COUNT' <= max_vehicles'
       /\ VEHICLE_COUNT' \in {VEHICLE_COUNT, VEHICLE_COUNT + 1}]_vars

\* the counter has reached a maximum of more than one vehicle
C11_Witness ==
    /\ VEHICLE_COUNT = max_vehicles
    /\ vehicle_threads = <<1, 2>>
    /\ pc[1] # "unborn" /\ pc[2] # "unborn"

\* C12: the registry never has more Occupied entries than pumps, and an entry
\* Occupied by v changes only in v's own release step, to v's release text.
C12_OnlyOwnerReleases ==
    [][/\ Len(pump_status') = NUM_PUMPS'
       /\ Cardinality({i \in 1..NUM_PUMPS : \E v \in VehicleIds : OccupiedBy(i, v)})
             <= NUM_PUMPS
       /\ \A i \in 1..NUM_PUMPS : \A v \in VehicleIds :
             (OccupiedBy(i, v) /\ pump_status'[i] # pump_status[i])
                => /\ pc[v] = "free_locked" /\ pc'[v] = "release"
                   /\ pump_id[v] = i
                   /\ pump_status'[i] = ReleasedText(i, v)]_vars

\* one vehicle has released its entry while another still occupies its own
C12_Witness ==
    \E v, w \in VehicleIds :
        /\ v # w
        /\ pc[v] = "release" /\ pump_status[pump_id[v]] = ReleasedText(pump_id[v], v)
        /\ Fueling(w) /\ OccupiedBy(pump_id[w], w)

\* C13: every Occupied entry names a vehicle that holds a pool slot, so there
\* are never more Occupied entries than held slots: the entry is cleared
\* before the permit is returned.
C13_OccupiedImpliesSlotHeld ==
    /\ \A i \in 1..NUM_PUMPS : \A v \in VehicleIds : OccupiedBy(i, v) => HoldsSlot(v)
    /\ Cardinality({i \in 1..NUM_PUMPS : \E v \in VehicleIds : OccupiedBy(i, v)})
          <= Cardinality(SlotHolders)

\* both windows at once: one vehicle holds a slot with no entry recorded yet,
\* another has cleared its entry and still holds its slot
C13_Witness ==
    \E v, w \in VehicleIds :
        /\ pc[v] = "scan" /\ HoldsSlot(v) /\ \A i \in 1..NUM_PUMPS : ~OccupiedBy(i, v)
        /\ pc[w] = "release" /\ HoldsSlot(w) /\ \A i \in 1..NUM_PUMPS : ~OccupiedBy(i, w)

\* C14 as stated: while an entry holds a non-positive pump count or vehicle
\* maximum no supervisor run has begun and no vehicle exists.
C14_NonPositiveRejected ==
    (pumps_var <= 0 \/ max_var <= 0)
        => (mgr_pc = "none" /\ VEHICLE_COUNT = 0 /\ \A v \in VehicleIds : pc[v] = "unborn")

\* C14 as amended: a non-positive entry is not rejected but replaced by 1
\* before the run starts; a positive entry is taken as it is, so no run has a
\* non-positive pump count or vehicle maximum.
C14_NonPositiveClamped ==
    mgr_pc # "none" =>
        /\ NUM_PUMPS = (IF pumps_var <= 0 THEN 1 ELSE pumps_var)
        /\ max_vehicles = (IF max_var <= 0 THEN 1 ELSE max_var)
        /\ Len(pump_status) = NUM_PUMPS
        /\ PUMPS_SEMAPHORE + Cardinality(SlotHolders) = NUM_PUMPS

\* a run started from two non-positive entries has served its one vehicle
C14_Witness ==
    /\ pumps_var <= 0 /\ max_var <= 0
    /\ NUM_PUMPS = 1 /\ VEHICLE_COUNT = 1
    /\ pc[1] = "departed"

\* vehicle v was granted a slot and its scan ended without a pump
TookErrorBranch(v) ==
    \/ pc[v] \in {"error", "aborted"}
    \/ pc[v] = "crashed" /\ acquires[v] = 1 /\ pump_id[v] = NO_PUMP

\* C15: a vehicle whose scan found no pump never fuels or pays (it has no
\* pump), and once its thread has ended it has given its slot back; it alone
\* is affected: the supervisor can still declare the run complete only after it.
C15_ErrorBranchReleasesSlot ==
    \A v \in VehicleIds :
        TookErrorBranch(v) =>
            /\ pump_id[v] = NO_PUMP
            /\ Terminal(pc[v]) => releases[v] = acquires[v]

\* C16: at the step that marks pump i Occupied no lower pump is free, and
\* the scan is atomic: from the first entry a scan has examined to its claim
\* no other vehicle's claim or release changes the registry.
C16_AtomicLowestFreeClaim ==
    [][/\ \A v \in VehicleIds : \A i \in 1..NUM_PUMPS :
             (mgr_pc # "none" /\ ~OccupiedBy(i, v) /\ pump_status'[i] = OccupiedText(i, v))
                => \A j \in 1..(i - 1) : ~is_free(pump_status[j])
       /\ \A v \in VehicleIds :
             (pc[v] \in {"scan", "scan_locked"} /\ scan_i[v] > 0 /\ scan_i[v] < NUM_PUMPS)
                => (pump_status' = pump_status \/ pc'[v] = "tank")]_vars

\* C17: the supervisor reads the entries of a snapshot under the lock that
\* guards the registry: at the step that reads them no vehicle is inside a
\* `with PRINT_LOCK` block of the registry.
C17_SnapshotUnderRegistryLock ==
    [][(mgr_pc = "display" /\ mgr_pc' = "display_print") => PRINT_LOCK \notin VehicleIds]_vars

\* C18: a vehicle that waits for the cashier or pays holds no pool slot and
\* occupies no registry entry, and on the way there the entry is released
\* before the slot: at the release of the slot the entry is already rewritten.
C18_NoPumpWhileAtCashier ==
    \A v \in VehicleIds :
        /\ pc[v] \in {"pay_wait", "pay_lock", "paying"}
              => /\ ~HoldsSlot(v)
                 /\ \A i \in 1..NUM_PUMPS : ~OccupiedBy(i, v)
        /\ pc[v] = "release"
              => /\ HoldsSlot(v)
                 /\ pump_status[pump_id[v]] = ReleasedText(pump_id[v], v)

\* a vehicle pays after it has fueled and returned its one slot
C18_Witness ==
    \E v \in VehicleIds :
        /\ Paying(v)
        /\ acquires[v] = 1 /\ releases[v] = 1
        /\ pump_status[pump_id[v]] = ReleasedText(pump_id[v], v)

\* C19: the vehicles that are fueling have pairwise distinct pumps, each pump
\* index is within 1..NUM_PUMPS and its entry names the vehicle.
C19_DistinctPumps ==
    \A v \in VehicleIds :
        Fueling(v) =>
            /\ pump_id[v] \in 1..NUM_PUMPS
            /\ OccupiedBy(pump_id[v], v)
            /\ \A w \in VehicleIds : (w # v /\ Fueling(w)) => pump_id[w] # pump_id[v]

\* two vehicles fuel at once, at two pumps
C19_Witness ==
    \E v, w \in VehicleIds :
        v # w /\ Fueling(v) /\ Fueling(w) /\ pump_id[v] = 1 /\ pump_id[w] = 2

\* C20: when the supervisor has declared the run complete the semaphore has
\* all NUM_PUMPS permits, no entry is Occupied, the cashier lock is free and
\* CASHIER_BUSY is false.
C20_ResourcesAtRestWhenDone ==
    mgr_pc = "done" =>
        /\ PUMPS_SEMAPHORE = NUM_PUMPS
        /\ \A i \in 1..NUM_PUMPS : \A v \in VehicleIds : ~OccupiedBy(i, v)
        /\ CASHIER_LOCK = 0
        /\ ~CASHIER_BUSY

====
